---- MODULE Spec2Model ----
\* The incremental content collection engine of the Dutch Social Monitor
\* scraper: the per-target Extract -> Reveal -> Settle loop (collect /
\* scrollAndCollect), the target loop of main, and the final upload.
\*
\* The repository holds six revisions of the scraper script.  The variable
\* rev selects the revision whose code the run executes:
\*   "S1"  src/scraper/scraper.ts    1-351   collect, page-height staleness
\*   "S2"  src/scraper/scraper.ts  353-478   collect, Map, keeps first write
\*   "S3"  src/scraper/scraper.ts  480-673   scrollAndCollect, last write wins
\*   "P1"  src/unnamed/part_001              collect, page-height staleness
\*   "P2"  src/unnamed/part_002              collect, page-height staleness
\*   "P3"  src/unnamed/part_003              scrollAndCollect, last write wins
EXTENDS Integers, Sequences, FiniteSets, TLC

\* ---------------------------------------------------------------- bounds
MaxId      == 2    \* tweet ids a free source can render: 1..MaxId
MaxHeight  == 2    \* distinct values of document.body.scrollHeight
MaxTarget  == 3    \* largest limit/target handed to the collector
NumTargets == 2    \* entries of TOPICS / TARGETS in a multi-target run
MaxRounds  == 6    \* rounds explored per target in the page-height revisions
MaxLabel   == 5    \* characters of an aria-label
MaxTick    == 2    \* clock ticks a settle delay may take
MaxText    == 3    \* characters of a rendered tweet text
MaxDepth   == 2    \* nested calls the interpreter allows hf_sentiment_single

\* ------------------------------------------------------ program constants
StaleS1 == 5
StaleS2 == 4
StaleS3 == 4
StaleP1 == 4
StaleP2 == 4
StaleP3 == 5
TweetsPerTopicS3 == 50

Revs       == {"S1", "S2", "S3", "P1", "P2", "P3"}
CountRevs  == {"S2", "S3", "P3"}
HeightRevs == {"S1", "P1", "P2"}

MaxStaleRounds(r) ==
  CASE r = "S1" -> StaleS1
    [] r = "S2" -> StaleS2
    [] r = "S3" -> StaleS3
    [] r = "P1" -> StaleP1
    [] r = "P2" -> StaleP2
    [] r = "P3" -> StaleP3

\* seen.set(id, t) for every parsed item: S3, P3.  The others test
\* seenIds.has / seen.has first and keep the record already stored.
LastWriteWins(r) == r \in {"S3", "P3"}

\* if (tweets.length >= limit) break;  at the head of the item loop
InnerBreak(r) == r \in HeightRevs

\* main awaits page.waitForSelector before collecting (P1 does not)
HasSelectorWait(r) == r # "P1"

\* main sorts TOPICS with a random comparator before the target loop
Shuffles(r) == r \in {"S1", "P1", "P2"}

\* main visits the home page before the target loop
HasWarmUp(r) == r = "S1"

\* context.newPage is called inside the target loop, and page.close in its
\* finally; the other revisions open one page before the loop
PagePerTarget(r) == r \in {"S2", "S3", "P3"}

\* the page is still open when the next iteration starts
AfterFinallyLeaks(r, n) == n

\* finally { await page.close() }
AfterFinally(r, n) == IF PagePerTarget(r) THEN n - 1 ELSE n

\* humanScroll has a branch that scrolls back up
HasScrollBack(r) == r = "S1"

\* the four values every revision reads from the environment
ConfigKeys == {"SUPABASE_URL", "SUPABASE_SERVICE_ROLE_KEY", "X_AUTH_TOKEN", "X_CT0"}

StoreKeys == {"SUPABASE_URL", "SUPABASE_SERVICE_ROLE_KEY"}

\* part_003 reads the values with a non-null assertion and tests none of them
ValidatesEnv(r) == r # "P3"

\* main().catch of the revision ends the process with status 1
CatchExits(r) == r \in {"S3", "P3"}

\* a selector timeout is swallowed by .catch(...) and collection goes on
SwallowsSelectorTimeout(r) == r = "S3"

\* ------------------------------------------------------------ the source
\* the text a tweet is rendered with: as first seen, or changed since
Texts == {1, 2}

Items == [id : 1..MaxId, text : Texts]

DistinctIds(v) == \A i, j \in 1..Len(v) : i # j => v[i].id # v[j].id

Views == {v \in UNION {[1..n -> Items] : n \in 0..MaxId} : DistinctIds(v)}

Heights == 1..MaxHeight

\* A scripted mock source gives every target a sequence of views: the view of
\* round k of target t is script[t][k], and the last view of a target is
\* rendered again in every later round.
FirstIds(n) == [i \in 1..n |-> [id |-> i, text |-> 1]]

\* 5 unique items over the first 3 rounds, the last of them new in round 3,
\* then the same 5 items in every later round
ScenarioScripts ==
  {<< <<FirstIds(p[1]), FirstIds(p[1] + p[2]), FirstIds(5)>> >> :
      p \in {q \in (0..4) \X (0..4) : q[1] + q[2] < 5}}

\* every target renders one view of its own in every round: nothing, one
\* item, or all items
ConstViews == {FirstIds(MaxId)} \cup {v \in Views : Len(v) <= 1 /\ \A i \in 1..Len(v) : v[i].text = 1}

RunScripts == [1..NumTargets -> {<<v>> : v \in ConstViews}]

\* TOPICS / TARGETS as written in the script, by label
TopicList(n) == [i \in 1..n |-> i]

IsPermutationOf(a, b) ==
  /\ Len(a) = Len(b)
  /\ \A i \in 1..Len(b) : Cardinality({k \in 1..Len(a) : a[k] = b[i]}) = 1

AnyOrderWithRepeats(r, list) == [1..Len(list) -> {list[i] : i \in 1..Len(list)}]

\* TOPICS.sort(() => Math.random() - 0.5): sort rearranges in place, so any
\* order of the same entries may come out; the revisions without the call
\* keep the written order
Shuffled(r, list) ==
  IF Shuffles(r)
    THEN {o \in [1..Len(list) -> {list[i] : i \in 1..Len(list)}] : IsPermutationOf(o, list)}
    ELSE {list}

ScriptView(s, t, k) == IF k <= Len(s[t]) THEN s[t][k] ELSE s[t][Len(s[t])]

\* the element handles of a view; ok is FALSE for an element on which a query
\* of the item loop throws
Mark(view, broken) ==
  [i \in 1..Len(view) |->
     [id |-> view[i].id, text |-> view[i].text, ok |-> i \notin broken]]

IsOk(e) == e.ok

Elements == {Mark(v, b) : v \in Views, b \in SUBSET (1..MaxId)}

\* ------------------------------------------------------ engagement counts
\* the characters of an aria-label: two digits, the grouping comma, any other
Chars == {"1", "2", ",", "x"}

Labels == UNION {[1..n -> Chars] : n \in 0..MaxLabel}

IsDigit(c) == c \in {"1", "2"}

DigitVal(c) == IF c = "1" THEN 1 ELSE 2

IsComma(c) == c = ","

NotComma(c) == c # ","

\* [\d,]
InRun(c) == IsDigit(c) \/ IsComma(c)

\* the revisions whose records carry likes, retweets and replies
CounterRevs == {"S3", "P3"}

\* label.match(/[\d,]+/): the first maximal run of digits and commas, or
\* <<>> for null
RegexMatch(l) ==
  IF \A i \in 1..Len(l) : ~InRun(l[i]) THEN <<>>
  ELSE LET a == CHOOSE i \in 1..Len(l) :
                  InRun(l[i]) /\ \A j \in 1..(i - 1) : ~InRun(l[j])
           b == CHOOSE i \in a..Len(l) :
                  /\ \A j \in a..i : InRun(l[j])
                  /\ (i = Len(l) \/ ~InRun(l[i + 1]))
       IN  SubSeq(l, a, b)

\* replace(/,/g, ""): every comma goes
ReplaceAll(m) == SelectSeq(m, NotComma)

\* replace(",", ""): only the first comma goes
ReplaceFirst(m) ==
  IF \A i \in 1..Len(m) : NotComma(m[i]) THEN m
  ELSE LET k == CHOOSE i \in 1..Len(m) :
                  IsComma(m[i]) /\ \A j \in 1..(i - 1) : NotComma(m[j])
       IN  SubSeq(m, 1, k - 1) \o SubSeq(m, k + 1, Len(m))

\* the value of a string of digits
RECURSIVE Decimal(_)
Decimal(d) ==
  IF d = <<>> THEN 0 ELSE 10 * Decimal(SubSeq(d, 1, Len(d) - 1)) + DigitVal(d[Len(d)])

\* the longest prefix of digits
RECURSIVE LeadingDigits(_)
LeadingDigits(t) ==
  IF t = <<>> \/ ~IsDigit(Head(t)) THEN <<>> ELSE <<Head(t)>> \o LeadingDigits(Tail(t))

\* a JavaScript number: an integer value, or NaN
Num(n) == [nan |-> FALSE, val |-> n]

NaN == [nan |-> TRUE, val |-> 0]

\* parseInt(t, 10): the value of the leading digits, NaN when there are none
ParseInt(t) == IF LeadingDigits(t) = <<>> THEN NaN ELSE Num(Decimal(LeadingDigits(t)))

parseCount(r, l) ==
  LET m == RegexMatch(l)
  IN  IF m = <<>> THEN Num(0)
      ELSE ParseInt(IF r = "P3" THEN ReplaceFirst(m) ELSE ReplaceAll(m))

\* --------------------------------------------------------------- records
\* every record gets the label of the first target
MakeRecordFirstTopic(it, topic) == [tweet_id |-> it.id, topic |-> 1, text |-> it.text]

\* tweets.push({ tweet_id, text, topic, ... }) with the topic handed to the collector
MakeRecord(it, topic) == [tweet_id |-> it.id, topic |-> topic, text |-> it.text]

HasId(s, id) == \E i \in 1..Len(s) : s[i].tweet_id = id

\* an existing key is deleted and set again, which moves it to the end
MapSetMovesLast(s, rec) ==
  Append(SelectSeq(s, LAMBDA x : x.tweet_id # rec.tweet_id), rec)

\* Map.set: an existing key keeps its position and takes the new value
MapSet(s, rec) ==
  IF HasId(s, rec.tweet_id)
    THEN [i \in 1..Len(s) |-> IF s[i].tweet_id = rec.tweet_id THEN rec ELSE s[i]]
    ELSE Append(s, rec)

\* if (!seen.has(id)) { seen.add(id); push(record) }
AddIfNew(s, rec) == IF HasId(s, rec.tweet_id) THEN s ELSE Append(s, rec)

\* seen holds what the page renders now and nothing else
MergeOneKeepsLatest(r, s, rec) == <<rec>>

MergeOne(r, s, rec) == IF LastWriteWins(r) THEN MapSet(s, rec) ELSE AddIfNew(s, rec)

AfterItemErrorStops(rest) == <<>>

\* catch { /* skip broken elements */ } inside the for loop: the loop goes on
\* with the elements after the one that threw
AfterItemError(rest) == rest

\* the record parseTweets pushes for an element, with the time it is made at
MakeRecordAt(it, topic, t) ==
  [tweet_id |-> it.id, topic |-> topic, text |-> it.text, scraped_at |-> t]

\* parseTweets: the records of the elements that do not throw, all made
\* within the clock tick t
RECURSIVE ParseTweetsAt(_, _, _)
ParseTweetsAt(els, topic, t) ==
  IF els = <<>> THEN <<>>
  ELSE IF ~Head(els).ok THEN ParseTweetsAt(AfterItemError(Tail(els)), topic, t)
  ELSE <<MakeRecordAt(Head(els), topic, t)>> \o ParseTweetsAt(Tail(els), topic, t)

\* batch.forEach(t => seen.set(t.tweet_id, t))
RECURSIVE SetAll(_, _)
SetAll(s, batch) ==
  IF batch = <<>> THEN s ELSE SetAll(MapSet(s, Head(batch)), Tail(batch))

\* the item loop of one round
RECURSIVE MergeView(_, _, _, _, _)
MergeView(r, s, view, topic, lim) ==
  IF view = <<>> THEN s
  ELSE IF InnerBreak(r) /\ Len(s) >= lim THEN s
  ELSE IF ~Head(view).ok THEN MergeView(r, s, AfterItemError(Tail(view)), topic, lim)
  ELSE MergeView(r, MergeOne(r, s, MakeRecord(Head(view), topic)), Tail(view), topic, lim)

\* the items of the view the item loop actually parsed
RECURSIVE Parsed(_, _, _, _, _)
Parsed(r, s, view, topic, lim) ==
  IF view = <<>> THEN <<>>
  ELSE IF InnerBreak(r) /\ Len(s) >= lim THEN <<>>
  ELSE IF ~Head(view).ok THEN Parsed(r, s, AfterItemError(Tail(view)), topic, lim)
  ELSE <<Head(view)>> \o
       Parsed(r, MergeOne(r, s, MakeRecord(Head(view), topic)), Tail(view), topic, lim)

\* Array.from(seen.values()).slice(0, target)
SliceToNone(s, n) == s

SliceTo(s, n) == IF Len(s) <= n THEN s ELSE SubSeq(s, 1, n)

\* the loop goes on after the target was reached
LoopContinuesStaleOnly(r, size, st, lim) == st < MaxStaleRounds(r)

LoopContinuesOffByOne(r, size, st, lim) == size < lim /\ st <= MaxStaleRounds(r)

LoopContinues(r, size, st, lim) == size < lim /\ st < MaxStaleRounds(r)

\* growth counts as the first stale round
StaleByCountFromOne(st, size, before) == IF size = before THEN st + 1 ELSE 1

StaleByCountNoReset(st, size, before) == IF size = before THEN st + 1 ELSE st

StaleByCount(st, size, before) == IF size = before THEN st + 1 ELSE 0

StaleByHeight(st, h, before) == IF h = before THEN st + 1 ELSE 0

\* the new records put in front of the accumulated ones
FoldInFront(all, tweets) == tweets \o all

FoldInto(all, tweets) == all \o tweets

\* ------------------------------------------------------------------ state
VARIABLES
  rev,          \* revision of the script that runs
  target,       \* limit / target handed to collect / scrollAndCollect
  topics,       \* TOPICS / TARGETS: the labels of the targets, in run order
  script,       \* <<>> for a free source, else the scripted views
  pc,           \* position of the single sequential flow
  ti,           \* index of the target being processed
  seen,         \* tweets / seen / collected, in insertion order
  stale,        \* retries / stale / staleRounds
  prev,         \* prevSize / prev / prevCount
  previousHeight,
  allTweets,    \* the run's accumulated output
  uploaded,     \* the batches handed to supabase upsert
  uploadErr,    \* the upsert returned an error
  status,       \* per target: Pending, Loading, Collecting, Done, PartialDone, Failed
  returned,     \* per target: what the collector returned
  navThrew,     \* per target: page.goto threw
  selTimedOut,  \* per target: waitForSelector timed out
  loaded,       \* per target: Loading ended and the collector was entered
  rounds,       \* rounds started for the current target
  lastGrowth,   \* the last round of the current target in which seen grew
  sizeBefore,   \* seen.size when the current round started
  staleBefore,  \* the stale counter when the current round started
  lastText,     \* per id: the text of its latest extraction in this target
  firstSeen,    \* the ids merged in this target, in order of first appearance
  scrolledBack, \* per target: humanScroll took its scroll-back branch
  missing,      \* the required environment values that are absent
  launched,     \* chromium.launch has resolved
  cookiesSet,   \* context.addCookies has resolved
  navigated,    \* a page.goto has been issued
  gotos,        \* per target: the page.goto calls of the target loop for it
  pagesOpen,    \* pages opened with context.newPage and not closed
  browserClosed, \* browser.close has resolved
  exitCode,     \* "running", or the status the process ended with
  elements,     \* parseTweets alone: the element handles page.$$ returned
  seenBefore,   \* parseTweets alone: seen when the item loop started
  label,        \* parseCount alone: the aria-label handed to it
  parsedCount,  \* parseCount alone: what it returned
  now,          \* parseTweets twice: the clock new Date() reads
  batch1,       \* parseTweets twice: the records of the first extraction
  batch2,       \* parseTweets twice: the records of the second extraction
  store,        \* upsert alone: the rows of raw_tweets, by tweet_id
  storeBefore,  \* upsert alone: the rows before the call
  innerText,    \* text extraction alone: what the text element renders
  text,         \* text extraction alone: the text the record gets
  href,         \* id extraction alone: the permalink's href, in segments
  tweetId,      \* id extraction alone: the tweet_id the record gets
  processed,    \* NLP processor: raw_tweets.processed, by tweet_id
  analysis,     \* NLP processor: tweet_analysis.sentiment_label, by tweet_id
  tweets,       \* NLP processor: the tweet_ids its run fetched
  analysisRows, \* NLP processor: the labels of analysis_rows built so far
  depth,        \* NLP processor: nested calls of hf_sentiment_single
  service       \* NLP processor: "busy" when the model answers 503 to everything

vars == <<rev, target, topics, script, pc, ti, seen, stale, prev, previousHeight,
          allTweets, uploaded, uploadErr, status, returned, navThrew, selTimedOut,
          loaded, rounds, lastGrowth, sizeBefore, staleBefore, lastText, firstSeen,
          scrolledBack, missing, launched, cookiesSet, navigated, gotos, pagesOpen,
          browserClosed, exitCode,
          elements, seenBefore, label, parsedCount, now, batch1, batch2,
          store, storeBefore, innerText, text, href, tweetId,
          processed, analysis, tweets, analysisRows, depth, service>>

Targets == 1..NumTargets

collectVars == <<seen, stale, prev, previousHeight, rounds, lastGrowth,
                 sizeBefore, staleBefore, lastText,
                 firstSeen>>
fieldVars   == <<store, storeBefore, innerText, text, href, tweetId>>
nlpVars     == <<processed, analysis, tweets, analysisRows, depth, service>>
calcVars    == <<elements, seenBefore, label, parsedCount, now, batch1, batch2,
                 fieldVars, nlpVars>>
runVars     == <<rev, target, topics, script, missing, calcVars>>
mainVars    == <<allTweets, uploaded, uploadErr>>
setupVars   == <<launched, cookiesSet, exitCode>>
navVars     == <<navigated, gotos, pagesOpen, browserClosed>>
auxVars     == <<scrolledBack, navVars, setupVars>>
histVars    == <<returned, navThrew, selTimedOut, loaded, auxVars>>

\* the variables of the store and of the field extractions, at rest
\* the NLP processor has not run
InitNlpIdle ==
  /\ processed = <<>>
  /\ analysis = <<>>
  /\ tweets = <<>>
  /\ analysisRows = <<>>
  /\ depth = 0
  /\ service = "any"

InitFields ==
  /\ InitNlpIdle
  /\ store = {}
  /\ storeBefore = {}
  /\ innerText = <<>>
  /\ text = <<>>
  /\ href = <<>>
  /\ tweetId = <<>>

InitCommon ==
  /\ pc = "start"
  /\ InitFields
  /\ missing \in SUBSET ConfigKeys
  /\ elements = <<>>
  /\ seenBefore = <<>>
  /\ label = <<>>
  /\ parsedCount = Num(0)
  /\ now = 0
  /\ batch1 = <<>>
  /\ batch2 = <<>>
  /\ launched = FALSE
  /\ cookiesSet = FALSE
  /\ navigated = FALSE
  /\ pagesOpen = 0
  /\ browserClosed = FALSE
  /\ gotos = [t \in Targets |-> 0]
  /\ exitCode = "running"
  /\ ti = 1
  /\ seen = <<>>
  /\ stale = 0
  /\ prev = 0
  /\ previousHeight = 0
  /\ allTweets = <<>>
  /\ uploaded = <<>>
  /\ uploadErr = FALSE
  /\ status = [t \in Targets |-> "Pending"]
  /\ returned = [t \in Targets |-> <<>>]
  /\ navThrew = [t \in Targets |-> FALSE]
  /\ selTimedOut = [t \in Targets |-> FALSE]
  /\ loaded = [t \in Targets |-> FALSE]
  /\ scrolledBack = [t \in Targets |-> FALSE]
  /\ rounds = 0
  /\ lastGrowth = 0
  /\ sizeBefore = 0
  /\ staleBefore = 0
  /\ lastText = <<>>
  /\ firstSeen = <<>>

\* one target, any source
InitFree ==
  /\ rev \in Revs
  /\ target \in 1..MaxTarget
  /\ topics = <<1>>
  /\ script = <<>>
  /\ InitCommon

\* one target, the mock source of the 5-item scenario
InitScenario ==
  /\ rev \in {"S2", "S3"}
  /\ target = TweetsPerTopicS3
  /\ topics = <<1>>
  /\ script \in ScenarioScripts
  /\ InitCommon

\* several targets, each with a mock source of its own, in the order the
\* revision fixes before its loop
InitRun ==
  /\ rev \in Revs
  /\ target \in 1..MaxTarget
  /\ topics \in Shuffled(rev, TopicList(NumTargets))
  /\ script \in RunScripts
  /\ InitCommon

Init == InitFree \/ InitScenario \/ InitRun

\* ------------------------------------------------------------- start-up
\* module top level: the env test, then createClient, which throws on an
\* absent url or key; either way the process ends with status 1
LoadModule ==
  /\ pc = "start"
  /\ IF (ValidatesEnv(rev) /\ missing # {}) \/ missing \cap StoreKeys # {}
       THEN pc' = "exit" /\ exitCode' = "1"
       ELSE pc' = "launch" /\ exitCode' = exitCode
  /\ UNCHANGED <<runVars, ti, mainVars, collectVars, status, returned, navThrew,
                 selTimedOut, loaded, scrolledBack, navVars, launched,
                 cookiesSet>>

AfterLaunchWarmsUp == "warmup"

\* what main does with the launched browser first: newContext and addCookies
AfterLaunch == "cookies"

Launch ==
  /\ pc = "launch"
  /\ launched' = TRUE
  /\ pc' = AfterLaunch
  /\ UNCHANGED <<runVars, ti, mainVars, collectVars, status, returned, navThrew,
                 selTimedOut, loaded, scrolledBack, navVars, cookiesSet,
                 exitCode>>

\* context.addCookies rejects a cookie whose value is not a string; the
\* rejection leaves main and reaches main().catch
AddCookies ==
  /\ pc = "cookies"
  /\ IF missing # {}
       THEN /\ pc' = "exit"
            /\ exitCode' = IF CatchExits(rev) THEN "1" ELSE "0"
            /\ UNCHANGED <<cookiesSet, status>>
       ELSE /\ cookiesSet' = TRUE
            /\ status' = status
            /\ pc' = "warmup"
            /\ exitCode' = exitCode
  /\ UNCHANGED <<runVars, ti, mainVars, collectVars, returned, navThrew,
                 selTimedOut, loaded, scrolledBack, navVars, launched>>

\* between the cookies and the target loop: the first revision opens a page
\* and visits the x.com home page inside a try of its own, so the visit may
\* fail and main goes on; the other revisions only open their page, before
\* the loop or in it. Then the loop takes its first target.
WarmUp ==
  /\ pc = "warmup"
  /\ navigated' = (navigated \/ HasWarmUp(rev))
  /\ gotos' = gotos
  /\ pagesOpen' = IF PagePerTarget(rev) THEN pagesOpen ELSE pagesOpen + 1
  /\ browserClosed' = browserClosed
  /\ status' = [status EXCEPT ![topics[1]] = "Loading"]
  /\ pc' = "goto"
  /\ UNCHANGED <<runVars, ti, mainVars, collectVars, returned, navThrew,
                 selTimedOut, loaded, scrolledBack, setupVars>>

\* ----------------------------------------------------------------- main
CatchTargetAborts ==
  /\ status' = [status EXCEPT ![topics[ti]] = "Failed"]
  /\ pc' = "upload"

\* the catch block of the target loop: log, contribute nothing
CatchTarget ==
  /\ status' = [status EXCEPT ![topics[ti]] = "Failed"]
  /\ pc' = "next"

EnterCollector ==
  /\ seen' = <<>>
  /\ stale' = 0
  /\ prev' = 0
  /\ previousHeight' = 0
  /\ rounds' = 0
  /\ lastGrowth' = 0
  /\ sizeBefore' = 0
  /\ staleBefore' = 0
  /\ lastText' = <<>>
  /\ firstSeen' = <<>>
  /\ loaded' = [loaded EXCEPT ![topics[ti]] = TRUE]
  /\ status' = [status EXCEPT ![topics[ti]] = "Collecting"]
  /\ pc' = "test"

Goto ==
  /\ pc = "goto"
  /\ IF HasSelectorWait(rev)
       THEN /\ pc' = "waitsel"
            /\ UNCHANGED <<collectVars, loaded, status>>
       ELSE EnterCollector
  /\ navigated' = TRUE
  /\ gotos' = [gotos EXCEPT ![topics[ti]] = @ + 1]
  /\ pagesOpen' = IF PagePerTarget(rev) THEN pagesOpen + 1 ELSE pagesOpen
  /\ browserClosed' = browserClosed
  /\ UNCHANGED <<runVars, ti, mainVars, returned, navThrew, selTimedOut,
                 scrolledBack, setupVars>>

GotoThrows ==
  /\ pc = "goto"
  /\ navThrew' = [navThrew EXCEPT ![topics[ti]] = TRUE]
  /\ CatchTarget
  /\ navigated' = TRUE
  /\ gotos' = [gotos EXCEPT ![topics[ti]] = @ + 1]
  /\ pagesOpen' = IF PagePerTarget(rev) THEN pagesOpen + 1 ELSE pagesOpen
  /\ browserClosed' = browserClosed
  /\ UNCHANGED <<runVars, ti, mainVars, collectVars, returned, selTimedOut, loaded,
                 scrolledBack, setupVars>>

\* context.newPage rejects: the call stands outside the try of the target
\* loop (and before the loop in the one-page revisions), so the rejection
\* leaves main and reaches main().catch
NewPageThrows ==
  /\ \/ pc = "goto" /\ PagePerTarget(rev)
     \/ pc = "warmup" /\ ~PagePerTarget(rev)
  /\ pc' = "exit"
  /\ exitCode' = IF CatchExits(rev) THEN "1" ELSE "0"
  /\ UNCHANGED <<runVars, ti, mainVars, collectVars, status, returned, navThrew,
                 selTimedOut, loaded, scrolledBack, navVars, launched,
                 cookiesSet>>

SelectorAppears ==
  /\ pc = "waitsel"
  /\ EnterCollector
  /\ UNCHANGED <<runVars, ti, mainVars, returned, navThrew, selTimedOut,
                 auxVars>>

SelectorTimeout ==
  /\ pc = "waitsel"
  /\ selTimedOut' = [selTimedOut EXCEPT ![topics[ti]] = TRUE]
  /\ IF SwallowsSelectorTimeout(rev)
       THEN EnterCollector
       ELSE /\ CatchTarget
            /\ UNCHANGED <<collectVars, loaded>>
  /\ UNCHANGED <<runVars, ti, mainVars, returned, navThrew,
                 auxVars>>

\* ------------------------------------------------------------ collector
StartRound ==
  /\ pc = "test"
  /\ LoopContinues(rev, Len(seen), stale, target)
  /\ rev \in HeightRevs => rounds < MaxRounds
  /\ rounds' = rounds + 1
  /\ sizeBefore' = Len(seen)
  /\ staleBefore' = stale
  /\ prev' = IF rev = "P3" THEN prev ELSE Len(seen)
  /\ pc' = "extract"
  /\ UNCHANGED <<runVars, ti, mainVars, histVars, status, seen, stale,
                 previousHeight, lastGrowth, lastText,
                 firstSeen>>

ExitLoop ==
  /\ pc = "test"
  /\ ~LoopContinues(rev, Len(seen), stale, target)
  /\ returned' = [returned EXCEPT ![topics[ti]] = SliceTo(seen, target)]
  /\ status' = [status EXCEPT ![topics[ti]] =
                  IF Len(seen) >= target THEN "Done" ELSE "PartialDone"]
  /\ pc' = "fold"
  /\ UNCHANGED <<runVars, ti, mainVars, collectVars, navThrew, selTimedOut, loaded,
                 auxVars>>

NoteTexts(lt, items) ==
  [i \in DOMAIN lt \cup {items[k].id : k \in 1..Len(items)} |->
     IF \E k \in 1..Len(items) : items[k].id = i
       THEN items[CHOOSE k \in 1..Len(items) :
                    items[k].id = i /\ \A m \in (k+1)..Len(items) : items[m].id # i].text
       ELSE lt[i]]

\* the ids of the items a round parsed, added behind the ids noted before
RECURSIVE NoteFirst(_, _)
NoteFirst(fs, items) ==
  IF items = <<>> THEN fs
  ELSE NoteFirst(IF \E i \in 1..Len(fs) : fs[i] = Head(items).id
                   THEN fs ELSE Append(fs, Head(items).id),
                 Tail(items))

ExtractWith(els) ==
  /\ seen' = MergeView(rev, seen, els, topics[ti], target)
  /\ lastText' = NoteTexts(lastText, Parsed(rev, seen, els, topics[ti], target))
  /\ firstSeen' = NoteFirst(firstSeen, Parsed(rev, seen, els, topics[ti], target))
  /\ lastGrowth' = IF Len(seen') > Len(seen) THEN rounds ELSE lastGrowth
  /\ pc' = "growth"

\* one pass of the item loop over what the page renders. An element that
\* throws leaves no trace in seen (the item loop on its own, below), so a view
\* with such an element is covered by the view without it.
Extract ==
  /\ pc = "extract"
  /\ IF script = <<>>
       THEN \E view \in Views : ExtractWith(Mark(view, {}))
       ELSE ExtractWith(Mark(ScriptView(script, topics[ti], rounds), {}))
  /\ UNCHANGED <<runVars, ti, mainVars, histVars, status, stale, prev,
                 previousHeight, rounds, sizeBefore, staleBefore>>

GrowthCheck ==
  /\ pc = "growth"
  /\ IF rev \in HeightRevs
       THEN \E h \in Heights :
              /\ stale' = StaleByHeight(stale, h, previousHeight)
              /\ previousHeight' = h
              /\ prev' = prev
       ELSE /\ stale' = StaleByCount(stale, Len(seen), prev)
            /\ prev' = IF rev = "P3" THEN Len(seen) ELSE prev
            /\ previousHeight' = previousHeight
  /\ pc' = "reveal"
  /\ UNCHANGED <<runVars, ti, mainVars, histVars, status, seen, rounds,
                 lastGrowth, sizeBefore, staleBefore, lastText,
                 firstSeen>>

\* humanScroll / scrollTo / scrollBy. Only humanScroll draws a branch: with
\* Math.random() < 0.2 it evaluates a closure in the page that names randomInt,
\* a function of the Node process; the page has no such name, page.evaluate
\* rejects, and the rejection leaves collect for main's catch. The other draws
\* (scroll count, distances, delays, the mouse wiggle) run in Node.
Reveal ==
  /\ pc = "reveal"
  /\ \E back \in (IF HasScrollBack(rev) THEN BOOLEAN ELSE {FALSE}) :
       /\ scrolledBack' = [scrolledBack EXCEPT ![topics[ti]] = @ \/ back]
       /\ IF back
            THEN CatchTarget
            ELSE pc' = "settle" /\ status' = status
  /\ UNCHANGED <<runVars, ti, mainVars, returned, navThrew, selTimedOut,
                 loaded, collectVars, navVars, setupVars>>

Settle ==
  /\ pc = "settle"
  /\ pc' = "test"
  /\ UNCHANGED <<runVars, ti, mainVars, histVars, status, collectVars>>

\* page.$$, page.evaluate or page.waitForTimeout rejects inside a round: the
\* collector has no try around them, so the rejection reaches main's catch
RoundThrows ==
  /\ \/ pc \in {"extract", "reveal", "settle"}
     \/ pc = "growth" /\ rev \in HeightRevs
  /\ CatchTarget
  /\ UNCHANGED <<runVars, ti, mainVars, histVars, collectVars>>

\* ----------------------------------------------------------------- main
FoldAndUpload ==
  /\ pc = "fold"
  /\ allTweets' = FoldInto(allTweets, returned[topics[ti]])
  /\ uploaded' = Append(uploaded, returned[topics[ti]])
  /\ pc' = "next"
  /\ UNCHANGED <<runVars, ti, uploadErr, histVars, status, collectVars>>

Fold ==
  /\ pc = "fold"
  /\ allTweets' = FoldInto(allTweets, returned[topics[ti]])
  /\ pc' = "next"
  /\ UNCHANGED <<runVars, ti, uploaded, uploadErr, histVars, status, collectVars>>

\* the for loop of main takes the next target, or ends
Advance(from) ==
  /\ pc \in from
  /\ IF ti < Len(topics)
       THEN /\ ti' = ti + 1
            /\ status' = [status EXCEPT ![topics[ti + 1]] = "Loading"]
            /\ pc' = "goto"
            /\ pagesOpen' = AfterFinally(rev, pagesOpen)
            /\ browserClosed' = browserClosed
       ELSE /\ ti' = ti
            /\ status' = status
            /\ pc' = "upload"
            /\ pagesOpen' = 0
            /\ browserClosed' = TRUE
  /\ seen' = <<>>
  /\ stale' = 0
  /\ prev' = 0
  /\ previousHeight' = 0
  /\ rounds' = 0
  /\ lastGrowth' = 0
  /\ sizeBefore' = 0
  /\ staleBefore' = 0
  /\ lastText' = <<>>
  /\ firstSeen' = <<>>
  /\ UNCHANGED <<runVars, mainVars, returned, navThrew, selTimedOut, loaded,
                 scrolledBack, navigated, gotos, setupVars>>

NextTargetEager == Advance({"next", "test"})

NextTarget == Advance({"next"})

\* the upsert of the revision, as the store answers it
\* the upsert options of the revision ask to leave conflicting rows alone
IgnoresDuplicates(r) == r \in {"S1", "P2"}

Keys(rows) == {rows[i].tweet_id : i \in 1..Len(rows)}

\* raw_tweets: tweet_id is UNIQUE NOT NULL
UniqueKey(st) == \A a, b \in st : a.tweet_id = b.tweet_id => a = b

\* rows left by earlier runs
StoredRows == {MakeRecord(it, 1) : it \in Items}

Stores == {st \in SUBSET StoredRows : UniqueKey(st)}

\* what main hands to upsert: one or two records, no two of the same target
\* with the same tweet_id
BatchRows == {MakeRecord(it, t) : it \in Items, t \in Targets}

Batches ==
  {<<a>> : a \in BatchRows} \cup
  {p \in BatchRows \X BatchRows :
     p[1].tweet_id # p[2].tweet_id \/ p[1].topic # p[2].topic}

\* onConflict with ignoreDuplicates: a row whose tweet_id is taken is dropped
RECURSIVE InsertNew(_, _)
InsertNew(st, rows) ==
  IF rows = <<>> THEN st
  ELSE InsertNew(IF \E r \in st : r.tweet_id = Head(rows).tweet_id
                   THEN st ELSE st \cup {Head(rows)},
                 Tail(rows))

\* onConflict alone: a row whose tweet_id is taken replaces the stored one
MergeDuplicates(st, rows) ==
  {r \in st : r.tweet_id \notin Keys(rows)} \cup {rows[i] : i \in 1..Len(rows)}

\* the store replaced by the batch
ReplaceStore(r, st, rows) == {rows[i] : i \in 1..Len(rows)}

Upsert(r, st, rows) ==
  IF IgnoresDuplicates(r) THEN InsertNew(st, rows) ELSE MergeDuplicates(st, rows)

\* one statement cannot update the same row twice: the call returns an error
Rejects(r, rows) ==
  /\ ~IgnoresDuplicates(r)
  /\ \E i, j \in 1..Len(rows) : i # j /\ rows[i].tweet_id = rows[j].tweet_id

\* the upload is skipped for no batch at all
SkipsUploadNever(rows) == FALSE

\* if (!tweets.length) return; if (allTweets.length === 0) return
SkipsUpload(rows) == rows = <<>>

UploadPcRetries(err) == IF err THEN "upload" ELSE "done"

\* where main goes after the upsert has answered: the error is logged
UploadPc(err) == "done"

UploadExitFatal(err) == IF err THEN "1" ELSE "0"

\* main returns after the upload whatever the upsert answered, and the
\* process ends with status 0
UploadExit(err) == "0"

\* browser.close, then upload: nothing is sent when the batch is empty, else
\* one upsert, which answers with or without an error
Upload ==
  /\ pc = "upload"
  /\ IF SkipsUpload(allTweets)
       THEN /\ UNCHANGED <<uploaded, uploadErr, store>>
            /\ pc' = "done"
            /\ exitCode' = "0"
       ELSE \E err \in (IF Rejects(rev, allTweets) THEN {TRUE} ELSE BOOLEAN) :
              /\ uploaded' = Append(uploaded, allTweets)
              /\ uploadErr' = err
              /\ store' = IF err THEN store ELSE Upsert(rev, store, allTweets)
              /\ pc' = UploadPc(err)
              /\ exitCode' = IF UploadPc(err) = "done" THEN UploadExit(err)
                                                       ELSE exitCode
  /\ UNCHANGED <<rev, target, topics, script, missing, elements, seenBefore,
                 label, parsedCount, now, batch1, batch2, storeBefore,
                 innerText, text, href, tweetId, nlpVars, ti, allTweets, status,
                 collectVars, returned, navThrew, selTimedOut, loaded,
                 scrolledBack, navVars, launched, cookiesSet>>

Next ==
  \/ LoadModule
  \/ Launch
  \/ AddCookies
  \/ WarmUp
  \/ NewPageThrows
  \/ Goto
  \/ GotoThrows
  \/ SelectorAppears
  \/ SelectorTimeout
  \/ StartRound
  \/ ExitLoop
  \/ Extract
  \/ GrowthCheck
  \/ Reveal
  \/ Settle
  \/ RoundThrows
  \/ Fold
  \/ NextTarget
  \/ Upload

Spec == Init /\ [][Next]_vars

\* the revisions whose staleness signal is the record-count plateau
InitCount == Init /\ rev \in CountRevs

SpecCount == InitCount /\ [][Next]_vars

\* ------------------------------------------------- the item loop on its own
\* one pass of the item loop, from any seen and over any element handles
InitAlone ==
  /\ topics = <<1>>
  /\ script = <<>>
  /\ missing = {}
  /\ ti = 1
  /\ stale = 0
  /\ prev = 0
  /\ previousHeight = 0
  /\ allTweets = <<>>
  /\ uploaded = <<>>
  /\ uploadErr = FALSE
  /\ status = [t \in Targets |-> IF t = 1 THEN "Collecting" ELSE "Pending"]
  /\ returned = [t \in Targets |-> <<>>]
  /\ navThrew = [t \in Targets |-> FALSE]
  /\ selTimedOut = [t \in Targets |-> FALSE]
  /\ loaded = [t \in Targets |-> t = 1]
  /\ scrolledBack = [t \in Targets |-> FALSE]
  /\ launched = TRUE
  /\ cookiesSet = TRUE
  /\ navigated = TRUE
  /\ pagesOpen = 1
  /\ browserClosed = FALSE
  /\ gotos = [t \in Targets |-> IF t = 1 THEN 1 ELSE 0]
  /\ exitCode = "running"
  /\ rounds = 1
  /\ lastGrowth = 0
  /\ staleBefore = 0
  /\ lastText = <<>>
  /\ firstSeen = <<>>

InitParse ==
  /\ rev \in Revs
  /\ target \in 1..MaxTarget
  /\ elements \in Elements
  /\ seenBefore \in {<<>>} \cup {<<MakeRecord(it, 1)>> : it \in Items}
  /\ seen = seenBefore
  /\ sizeBefore = Len(seenBefore)
  /\ label = <<>>
  /\ parsedCount = Num(0)
  /\ now = 0
  /\ batch1 = <<>>
  /\ batch2 = <<>>
  /\ pc = "parse"
  /\ InitFields
  /\ InitAlone

ParseRound ==
  /\ pc = "parse"
  /\ seen' = MergeView(rev, seen, elements, topics[ti], target)
  /\ pc' = "parsed"
  /\ UNCHANGED <<runVars, ti, mainVars, histVars, status, stale, prev,
                 previousHeight, rounds, lastGrowth, sizeBefore, staleBefore,
                 lastText,
                 firstSeen>>

NextParse == ParseRound

SpecParse == InitParse /\ [][NextParse]_vars

\* ------------------------------------------------ parseCount on its own
InitLabel ==
  /\ rev \in CounterRevs
  /\ target = 1
  /\ elements = <<>>
  /\ seenBefore = <<>>
  /\ seen = <<>>
  /\ sizeBefore = 0
  /\ label \in Labels
  /\ parsedCount = Num(0)
  /\ now = 0
  /\ batch1 = <<>>
  /\ batch2 = <<>>
  /\ pc = "count"
  /\ InitFields
  /\ InitAlone

ParseLabel ==
  /\ pc = "count"
  /\ parsedCount' = parseCount(rev, label)
  /\ pc' = "counted"
  /\ UNCHANGED <<rev, target, topics, script, missing, elements, seenBefore,
                 label, now, batch1, batch2, fieldVars, nlpVars, ti, mainVars,
                 histVars, status, collectVars>>

NextLabel == ParseLabel

SpecLabel == InitLabel /\ [][NextLabel]_vars

\* ------------------------------------- parseTweets twice on the same view
\* two successive rounds of scrollAndCollect over a view that does not change
InitTwice ==
  /\ rev \in {r \in Revs : LastWriteWins(r)}
  /\ target = MaxTarget
  /\ elements \in Elements
  /\ seenBefore = <<>>
  /\ seen = <<>>
  /\ sizeBefore = 0
  /\ label = <<>>
  /\ parsedCount = Num(0)
  /\ now \in 0..MaxTick
  /\ batch1 = <<>>
  /\ batch2 = <<>>
  /\ pc = "first"
  /\ InitFields
  /\ InitAlone

twiceRest == <<rev, target, topics, script, missing, elements, label, parsedCount,
               fieldVars, nlpVars,
               ti, mainVars, histVars, status, stale, prev, previousHeight,
               rounds, lastGrowth, sizeBefore, staleBefore, lastText,
                 firstSeen>>

ExtractFirst ==
  /\ pc = "first"
  /\ batch1' = ParseTweetsAt(elements, topics[ti], now)
  /\ seen' = SetAll(seen, batch1')
  /\ pc' = "settle"
  /\ UNCHANGED <<twiceRest, seenBefore, now, batch2>>

\* scrollBy and waitForTimeout(2500): the clock moves on
SettleTwice ==
  /\ pc = "settle"
  /\ \E d \in 1..MaxTick : now' = now + d
  /\ seenBefore' = seen
  /\ pc' = "second"
  /\ UNCHANGED <<twiceRest, seen, batch1, batch2>>

ExtractSecond ==
  /\ pc = "second"
  /\ batch2' = ParseTweetsAt(elements, topics[ti], now)
  /\ seen' = SetAll(seen, batch2')
  /\ pc' = "twice"
  /\ UNCHANGED <<twiceRest, seenBefore, now, batch1>>

NextTwice == ExtractFirst \/ SettleTwice \/ ExtractSecond

SpecTwice == InitTwice /\ [][NextTwice]_vars

\* ------------------------------------------------ the upsert on its own
InitStore ==
  /\ rev \in Revs
  /\ target = MaxTarget
  /\ elements = <<>>
  /\ seenBefore = <<>>
  /\ seen = <<>>
  /\ sizeBefore = 0
  /\ label = <<>>
  /\ parsedCount = Num(0)
  /\ now = 0
  /\ batch1 = <<>>
  /\ batch2 = <<>>
  /\ InitNlpIdle
  /\ store \in Stores
  /\ storeBefore = store
  /\ innerText = <<>>
  /\ text = <<>>
  /\ href = <<>>
  /\ tweetId = <<>>
  /\ pc = "upsert"
  /\ topics = <<1>>
  /\ script = <<>>
  /\ missing = {}
  /\ ti = 1
  /\ stale = 0
  /\ prev = 0
  /\ previousHeight = 0
  /\ allTweets \in Batches
  /\ uploaded = <<>>
  /\ uploadErr = FALSE
  /\ status = [t \in Targets |-> "Done"]
  /\ returned = [t \in Targets |-> <<>>]
  /\ navThrew = [t \in Targets |-> FALSE]
  /\ selTimedOut = [t \in Targets |-> FALSE]
  /\ loaded = [t \in Targets |-> TRUE]
  /\ scrolledBack = [t \in Targets |-> FALSE]
  /\ launched = TRUE
  /\ cookiesSet = TRUE
  /\ navigated = TRUE
  /\ pagesOpen = 0
  /\ browserClosed = TRUE
  /\ gotos = [t \in Targets |-> 1]
  /\ exitCode = "running"
  /\ rounds = 0
  /\ lastGrowth = 0
  /\ staleBefore = 0
  /\ lastText = <<>>
  /\ firstSeen = <<>>

UpsertBatch ==
  /\ pc = "upsert"
  /\ \E err \in (IF Rejects(rev, allTweets) THEN {TRUE} ELSE BOOLEAN) :
       /\ uploadErr' = err
       /\ store' = IF err THEN store ELSE Upsert(rev, store, allTweets)
  /\ uploaded' = Append(uploaded, allTweets)
  /\ pc' = "upserted"
  /\ UNCHANGED <<rev, target, topics, script, missing, elements, seenBefore,
                 label, parsedCount, now, batch1, batch2, storeBefore,
                 innerText, text, href, tweetId, nlpVars, ti, allTweets,
                 histVars, status, collectVars>>

NextStore == UpsertBatch

SpecStore == InitStore /\ [][NextStore]_vars

\* ----------------------------------------- the text extraction on its own
\* what innerText can hold: a letter, a space, a line break
Glyphs == {"a", " ", "\n"}

InnerTexts == UNION {[1..n -> Glyphs] : n \in 0..MaxText}

\* the revisions that build the record's text with text.replace(/\n/g, " ")
ReplacesBreaks(r) == r \in {"S1", "P1", "P2"}

\* String.prototype.trim strips spaces and line terminators at both ends
IsSpace(c) == c \in {" ", "\n"}

RECURSIVE TrimStart(_)
TrimStart(t) ==
  IF t # <<>> /\ IsSpace(Head(t)) THEN TrimStart(Tail(t)) ELSE t

RECURSIVE TrimEnd(_)
TrimEnd(t) ==
  IF t # <<>> /\ IsSpace(t[Len(t)]) THEN TrimEnd(SubSeq(t, 1, Len(t) - 1)) ELSE t

Trim(t) == TrimEnd(TrimStart(t))

\* replace(/\n/g, " "): every line break becomes one space
ReplaceBreaks(t) == [i \in 1..Len(t) |-> IF t[i] = "\n" THEN " " ELSE t[i]]

TextOf(r, t) == IF ReplacesBreaks(r) THEN ReplaceBreaks(t) ELSE Trim(t)

\* a field extraction runs inside one pass of the item loop
InitField ==
  /\ target = 1
  /\ elements = <<>>
  /\ seenBefore = <<>>
  /\ seen = <<>>
  /\ sizeBefore = 0
  /\ label = <<>>
  /\ parsedCount = Num(0)
  /\ now = 0
  /\ batch1 = <<>>
  /\ batch2 = <<>>
  /\ store = {}
  /\ storeBefore = {}
  /\ InitAlone

InitText ==
  /\ rev \in Revs
  /\ innerText \in InnerTexts
  /\ text = <<>>
  /\ href = <<>>
  /\ tweetId = <<>>
  /\ pc = "text"
  /\ InitNlpIdle
  /\ InitField

fieldRest == <<rev, target, topics, script, missing, elements, seenBefore, label,
               parsedCount, now, batch1, batch2, store, storeBefore, nlpVars,
               ti, mainVars, histVars, status, collectVars>>

ExtractText ==
  /\ pc = "text"
  /\ text' = TextOf(rev, innerText)
  /\ pc' = "texted"
  /\ UNCHANGED <<fieldRest, innerText, href, tweetId>>

NextText == ExtractText

SpecText == InitText /\ [][NextText]_vars

\* ------------------------------------------- the id extraction on its own
\* an href is held in segments: the author, "/status/", the digits of the id,
\* and what follows them
Authors == {"/alice", "/bob"}

IdDigits == {"1", "2"}

\* what a permalink carries behind the id: nothing, a query string, a further
\* path segment, or both
Trailers ==
  {<<>>, <<"?", "s=20">>, <<"/", "photo">>, <<"/", "analytics">>,
   <<"/", "photo", "?", "s=20">>}

\* the hrefs a[href*="/status/"] can carry for one tweet
Hrefs == {<<a, "/status/", d>> \o tr : a \in Authors, d \in IdDigits, tr \in Trailers}

\* the revisions that take the id with href.match(/status\/(\d+)/)
MatchesDigits(r) == r \in {"S1", "P1", "P2"}

\* split(sep)[0]
RECURSIVE Before(_, _)
Before(h, sep) ==
  IF h = <<>> \/ Head(h) = sep THEN <<>>
  ELSE <<Head(h)>> \o Before(Tail(h), sep)

\* what follows the first sep
RECURSIVE After(_, _)
After(h, sep) ==
  IF h = <<>> THEN <<>>
  ELSE IF Head(h) = sep THEN Tail(h)
  ELSE After(Tail(h), sep)

\* href.split("/status/")[1]?.split("?")[0]
SplitId(h) == Before(Before(After(h, "/status/"), "/status/"), "?")

\* href.match(/status\/(\d+)/): the digits that follow the first status/
RECURSIVE MatchId(_)
MatchId(h) ==
  IF Len(h) < 2 THEN <<>>
  ELSE IF h[1] = "/status/" /\ h[2] \in IdDigits THEN <<h[2]>>
  ELSE MatchId(Tail(h))

TweetIdOf(r, h) == IF MatchesDigits(r) THEN MatchId(h) ELSE SplitId(h)

InitId ==
  /\ rev \in Revs
  /\ innerText = <<>>
  /\ text = <<>>
  /\ href \in Hrefs
  /\ tweetId = <<>>
  /\ pc = "id"
  /\ InitNlpIdle
  /\ InitField

ExtractId ==
  /\ pc = "id"
  /\ tweetId' = TweetIdOf(rev, href)
  /\ pc' = "ided"
  /\ UNCHANGED <<fieldRest, innerText, text, href>>

NextId == ExtractId

SpecId == InitId /\ [][NextId]_vars

\* ------------------------------------------------------ the NLP processor
\* the labels LABEL_MAP yields
Sentiments == {"positive", "negative"}

\* what one request to the inference service gives: 503, another status, an
\* exception of requests.post, a 200 with an empty list, or a 200 whose best
\* label maps to a sentiment
HfReplies(svc) ==
  IF svc = "busy" THEN {"503"}
  ELSE {"503", "429", "timeout", "empty"} \cup Sentiments

\* the call never runs out of frames
FrameLimitNever(d) == FALSE

\* return hf_sentiment_single(text) nests one call per 503; past the
\* interpreter's limit the call raises RecursionError inside the try, and
\* except Exception returns None
FrameLimitReached(d) == d >= MaxDepth

\* processed=eq.false, order=scraped_at.desc
RECURSIVE Unprocessed(_, _)
Unprocessed(p, n) ==
  IF n = 0 THEN <<>>
  ELSE (IF p[n] THEN <<>> ELSE <<n>>) \o Unprocessed(p, n - 1)

InitNlp ==
  /\ rev = "P2"
  /\ processed = [id \in 1..MaxId |-> FALSE]
  /\ analysis = [id \in 1..MaxId |-> "none"]
  /\ tweets = <<>>
  /\ analysisRows = <<>>
  /\ depth = 0
  /\ service \in {"any", "busy"}
  /\ innerText = <<>>
  /\ text = <<>>
  /\ href = <<>>
  /\ tweetId = <<>>
  /\ pc = "reset"
  /\ InitField

nlpRest == <<rev, target, topics, script, missing, elements, seenBefore, label,
             parsedCount, now, batch1, batch2, fieldVars, service, ti, mainVars,
             histVars, status, collectVars>>

\* main, first step: PATCH raw_tweets?processed=eq.true with processed: false;
\* an exception of the request is logged and main goes on
NlpReset ==
  /\ pc = "reset"
  /\ \E ok \in BOOLEAN :
       processed' = IF ok THEN [id \in 1..MaxId |-> FALSE] ELSE processed
  /\ pc' = "fetch"
  /\ UNCHANGED <<nlpRest, analysis, tweets, analysisRows, depth>>

\* main, step 1: fetch the unprocessed tweets; none ends the run
NlpFetch ==
  /\ pc = "fetch"
  /\ tweets' = Unprocessed(processed, MaxId)
  /\ analysisRows' = <<>>
  /\ depth' = 0
  /\ pc' = IF tweets' = <<>> THEN "nlpdone" ELSE "hf"
  /\ UNCHANGED <<nlpRest, processed, analysis>>

\* main, step 2: one request of hf_sentiment_single for the next tweet
HfAnswer ==
  /\ pc = "hf"
  /\ \E reply \in HfReplies(service) :
       IF reply = "503" /\ ~FrameLimitReached(depth)
         THEN /\ depth' = IF depth < MaxDepth THEN depth + 1 ELSE depth
              /\ analysisRows' = analysisRows
              /\ pc' = pc
         ELSE /\ analysisRows' = Append(analysisRows, IF reply \in Sentiments THEN reply ELSE "unknown")
              /\ depth' = 0
              /\ pc' = IF Len(analysisRows') = Len(tweets) THEN "write" ELSE "hf"
  /\ UNCHANGED <<nlpRest, processed, analysis, tweets>>

\* main, steps 4 and 6: upsert the analysis rows, mark the tweets processed
NlpWrite ==
  /\ pc = "write"
  /\ analysis' = [id \in 1..MaxId |->
                    IF \E i \in 1..Len(tweets) : tweets[i] = id
                      THEN analysisRows[CHOOSE i \in 1..Len(tweets) : tweets[i] = id]
                      ELSE analysis[id]]
  /\ processed' = [id \in 1..MaxId |->
                     processed[id] \/ \E i \in 1..Len(tweets) : tweets[i] = id]
  /\ pc' = "nlpdone"
  /\ UNCHANGED <<nlpRest, tweets, analysisRows, depth>>

\* the next scheduled run of the pipeline
NlpRunAgain ==
  /\ pc = "nlpdone"
  /\ tweets' = <<>>
  /\ analysisRows' = <<>>
  /\ pc' = "reset"
  /\ UNCHANGED <<nlpRest, processed, analysis, depth>>

NextNlp == NlpReset \/ NlpFetch \/ HfAnswer \/ NlpWrite \/ NlpRunAgain

SpecNlp == InitNlp /\ [][NextNlp]_vars

\* a request ends within its timeout of 30 s and a wait within its 20 s
SpecNlpFair == SpecNlp /\ WF_vars(HfAnswer)

\* ------------------------------------------------------------- properties
Cur == topics[ti]

Ids(s) == {s[i].tweet_id : i \in 1..Len(s)}

NoDuplicateIds(b) == \A i, j \in 1..Len(b) : i # j => b[i].tweet_id # b[j].tweet_id

Finished(t) == status[t] \in {"Done", "PartialDone"}

\* C1: every batch handed to the upload sink holds no two records with the
\* same tweet_id, records of different targets included.
C1_BatchIdsUnique == \A k \in 1..Len(uploaded) : NoDuplicateIds(uploaded[k])

\* C2: the round count of a target is bounded by the rounds needed to reach
\* the last growth of seen plus max_stale_rounds, whatever items and page
\* heights the source shows.
C2_RoundsBounded == rounds <= lastGrowth + MaxStaleRounds(rev)

\* C3: after the growth check of a round the stale counter is one more than
\* before the round iff seen.size is unchanged, and 0 iff seen.size grew.
C3_StaleFollowsCount ==
  pc = "reveal" =>
    /\ (stale = staleBefore + 1) <=> (Len(seen) = sizeBefore)
    /\ (stale = 0) <=> (Len(seen) > sizeBefore)

\* C4: a round is started only while seen.size < target_count and
\* stale_round_count < max_stale_rounds; at the loop test a round is started
\* whenever both hold, and otherwise the loop ends, in Done when
\* seen.size >= target_count and in PartialDone when not.
C4_LoopStopsExactly ==
  [][/\ (rounds' = rounds + 1) =>
          (Len(seen) < target /\ stale < MaxStaleRounds(rev))
     /\ (pc = "test" /\ pc' # "test") =>
          IF Len(seen) < target /\ stale < MaxStaleRounds(rev)
            THEN rounds' = rounds + 1 /\ pc' = "extract"
            ELSE /\ rounds' = rounds
                 /\ pc' = "fold"
                 /\ status'[Cur] = IF Len(seen) >= target THEN "Done" ELSE "PartialDone"]_vars

C4_Witness ==
  /\ pc = "fold"
  /\ status[Cur] = "PartialDone"
  /\ lastGrowth > 1
  /\ rounds > lastGrowth

\* C5: every record of a target's final output carries the text of the
\* latest extraction of its id in that target.
C5_LastWriteWins ==
  pc = "fold" =>
    \A i \in 1..Len(returned[Cur]) :
      returned[Cur][i].text = lastText[returned[Cur][i].tweet_id]

RECURSIVE Contributions(_)
Contributions(k) ==
  IF k = 0 THEN <<>>
  ELSE Contributions(k - 1) \o
       (IF Finished(topics[k]) THEN returned[topics[k]] ELSE <<>>)

\* C6: when the target loop has ended, every target of the list has been
\* processed, every target whose navigation threw is Failed and has no record
\* in the batch, and the batch is exactly the records returned for the other
\* targets, in target order.
C6_FailureIsolation ==
  pc \in {"upload", "done"} =>
    /\ \A k \in 1..Len(topics) : status[topics[k]] \in {"Done", "PartialDone", "Failed"}
    /\ \A k \in 1..Len(topics) : navThrew[topics[k]] => status[topics[k]] = "Failed"
    /\ \A i \in 1..Len(allTweets) : status[allTweets[i].topic] # "Failed"
    /\ allTweets = Contributions(Len(topics))

C6_Witness ==
  /\ pc = "done"
  /\ Len(topics) = 2
  /\ navThrew[topics[1]]
  /\ Finished(topics[2])
  /\ allTweets # <<>>

\* C7: a target whose selector wait timed out is Failed: the collector is
\* never entered for it, no round runs and it returns no record.
C7_SelectorTimeoutFails ==
  \A t \in Targets :
    selTimedOut[t] => /\ status[t] = "Failed"
                      /\ ~loaded[t]
                      /\ returned[t] = <<>>
                      /\ (t = Cur => rounds = 0)

\* C8: a target is Failed only if its Loading failed; once the collector has
\* been entered the target ends in Done or PartialDone.
C8_FailedOnlyFromLoading == \A t \in Targets : status[t] = "Failed" => ~loaded[t]

\* C9: with fewer unique items than target_count, the collector stops once
\* max_stale_rounds rounds have passed without a new item, in PartialDone, and
\* returns exactly one record per rendered id.
C9_PartialBatchAccepted ==
  /\ (pc = "test" /\ Len(seen) < target /\ rounds - lastGrowth >= MaxStaleRounds(rev))
       => ~LoopContinues(rev, Len(seen), stale, target)
  /\ (pc = "fold" /\ Cardinality(DOMAIN lastText) < target)
       => /\ status[Cur] = "PartialDone"
          /\ Ids(returned[Cur]) = DOMAIN lastText
          /\ Len(returned[Cur]) = Cardinality(DOMAIN lastText)

\* C10: a collector that ends in PartialDone ends exactly max_stale_rounds
\* rounds after the last round in which seen grew; on the 5-item mock source
\* with target_count = 50 and max_stale_rounds = 4 that is after 7 rounds,
\* with exactly 5 records.
C10_StopsAfterMaxStale ==
  (pc = "fold" /\ status[Cur] = "PartialDone") =>
    /\ rounds = lastGrowth + MaxStaleRounds(rev)
    /\ script \in ScenarioScripts =>
         /\ rounds = 7
         /\ Len(returned[Cur]) = 5
         /\ NoDuplicateIds(returned[Cur])

C10_Witness ==
  /\ pc = "fold"
  /\ script \in ScenarioScripts
  /\ status[Cur] = "PartialDone"
  /\ lastGrowth = 3
  /\ rounds = 7
  /\ Len(returned[Cur]) = 5

\* C11: the records a collector returns for a target, and the records of that
\* target folded into the run's output, never number more than target_count,
\* also when one round reveals more new items than were still needed.
C11_AtMostTarget ==
  \A t \in Targets :
    /\ Len(returned[t]) <= target
    /\ Cardinality({i \in 1..Len(allTweets) : allTweets[i].topic = t}) <= target

C11_Witness ==
  /\ pc = "next"
  /\ sizeBefore < target
  /\ Len(seen) > target
  /\ Len(returned[Cur]) = target
  /\ Cardinality({i \in 1..Len(allTweets) : allTweets[i].topic = Cur}) = target

\* C12: a step of the human-behaviour simulator, whatever its random draws,
\* leaves the records collected for the target and the target's state as they
\* were; it only moves the flow on to the settle delay.
C12_SimulatorNeutral ==
  [][(scrolledBack'[Cur] /\ ~scrolledBack[Cur]) =>
       (pc' = "settle" /\ seen' = seen /\ status' = status)]_vars

Terminal(t) == status[t] \in {"Done", "PartialDone", "Failed"}

\* C13: targets are processed strictly one at a time: a target has left
\* Pending (its Loading has started) only when every target before it in the
\* run order is Done, PartialDone or Failed.
C13_OneTargetAtATime ==
  \A j, k \in 1..Len(topics) :
    (j < k /\ status[topics[k]] # "Pending") => Terminal(topics[j])

C13_Witness ==
  /\ Len(topics) > 1
  /\ status[topics[2]] = "Collecting"
  /\ status[topics[1]] = "PartialDone"
  /\ seen # <<>>

\* C14 as stated: every finished run has handed the sink exactly one batch,
\* the whole accumulated output, and a batch is handed over only when every
\* target is terminal.
C14_UploadOnce ==
  /\ pc = "done" => (Len(uploaded) = 1 /\ uploaded[1] = allTweets)
  /\ uploaded # <<>> => \A k \in 1..Len(topics) : Terminal(topics[k])

\* C14, amended: the sink is handed at most one batch per run; a finished run
\* has handed over exactly one iff its accumulated output is not empty; the
\* batch is the whole accumulated output and is handed over only when every
\* target is terminal.
C14_UploadAtMostOnce ==
  /\ Len(uploaded) <= 1
  /\ pc = "done" => (Len(uploaded) = 1 <=> allTweets # <<>>)
  /\ uploaded # <<>> =>
       /\ uploaded[1] = allTweets
       /\ \A k \in 1..Len(topics) : Terminal(topics[k])

C14_Witness ==
  /\ pc = "done"
  /\ Len(topics) > 1
  /\ status[topics[1]] = "Failed"
  /\ Finished(topics[2])
  /\ Len(uploaded) = 1
  /\ uploaded[1] = returned[topics[2]]

\* C15: when a required configuration value is absent the process ends with
\* a non-zero status, and a run with an absent value never launches a
\* browser, injects a cookie or issues a navigation.
C15_ConfigErrorBeforeWork ==
  missing # {} =>
    /\ ~launched /\ ~cookiesSet /\ ~navigated
    /\ pc = "exit" => exitCode = "1"

C15_Witness ==
  /\ rev = "P3"
  /\ missing = {"SUPABASE_URL"}
  /\ pc = "exit"
  /\ exitCode = "1"
  /\ ~launched

\* context.newPage rejected: main was left after the cookies were set
PageCreationFailed == pc = "exit" /\ cookiesSet

C17_FailedUploadNotRetried ==
  uploadErr =>
    /\ Len(uploaded) = 1
    /\ uploaded[1] = allTweets
    /\ pc = "done"
    /\ exitCode = "0"

C17_Witness ==
  /\ uploadErr
  /\ pc = "done"
  /\ Len(uploaded) = 1
  /\ Len(uploaded[1]) > 1

\* C18: an element whose parsing throws is skipped and nothing else is: the
\* item loop leaves seen as it would over the same elements without the ones
\* that throw, wherever in the view they stand, and no record is made of an
\* element that threw.
C18_SkipsOnlyBrokenItem ==
  pc = "parsed" =>
    /\ seen = MergeView(rev, seenBefore, SelectSeq(elements, IsOk), Cur, target)
    /\ \A i \in 1..Len(elements) :
         ~elements[i].ok =>
           (HasId(seen, elements[i].id) <=> HasId(seenBefore, elements[i].id))

C18_Witness ==
  /\ pc = "parsed"
  /\ Len(elements) = 2
  /\ ~elements[1].ok
  /\ elements[2].ok
  /\ seenBefore = <<>>
  /\ Ids(seen) = {elements[2].id}

\* the first run of digits and commas that holds a digit, without its commas
RECURSIVE NumericRun(_)
NumericRun(l) ==
  LET m == RegexMatch(l)
  IN  IF m = <<>> THEN <<>>
      ELSE IF ReplaceAll(m) # <<>> THEN ReplaceAll(m)
      ELSE NumericRun(SubSeq(l, Len(m) + 1 +
             Cardinality({i \in 1..Len(l) : \A j \in 1..i : ~InRun(l[j])}), Len(l)))

\* C19: for every label the counter is a non-negative integer: the value of
\* the first numeric run of the label with all its commas removed, and 0 when
\* the label is empty or holds no number.
C19_CountIsFirstNumericRun ==
  pc = "counted" =>
    /\ ~parsedCount.nan
    /\ parsedCount.val \in Nat
    /\ parsedCount.val = Decimal(NumericRun(label))

\* C20: two extractions of a view that has not changed give the same
\* records, equal on tweet_id and on every other field, and merging the
\* second one leaves seen as it was after the first.
C20_ExtractionIdempotent ==
  pc = "twice" =>
    /\ batch2 = batch1
    /\ seen = seenBefore

\* C21: no navigation, the warm-up visit included, is issued before
\* addCookies on the session's context has completed.
C21_CookiesBeforeNavigation == navigated => cookiesSet

C21_Witness ==
  /\ HasWarmUp(rev)
  /\ navigated
  /\ cookiesSet
  /\ pc = "goto"
  /\ ti = 1

\* C22: the targets are processed in an order that is a permutation of the
\* configured list and never changes during the run; no target is navigated
\* to twice, also after a failed navigation, and when the loop has ended
\* every configured target has been navigated to exactly once.
C22_EachTargetOnce ==
  /\ IsPermutationOf(topics, TopicList(Len(topics)))
  /\ \A k \in 1..Len(topics) : gotos[topics[k]] <= 1
  /\ pc \in {"upload", "done"} => \A k \in 1..Len(topics) : gotos[topics[k]] = 1

C22_Witness ==
  /\ pc = "done"
  /\ Len(topics) > 1
  /\ topics # TopicList(Len(topics))
  /\ navThrew[topics[1]]
  /\ status[topics[2]] = "PartialDone"
  /\ \A k \in 1..Len(topics) : gotos[topics[k]] = 1

\* C23: after a successful upload every record of the batch is the store's row
\* for its tweet_id, whether a row with that id existed before or not
C23_UpsertHoldsBatch ==
  (pc = "upserted" /\ ~uploadErr) =>
    \A i \in 1..Len(allTweets) : allTweets[i] \in store

\* C24: the upload leaves every row whose tweet_id is not in the batch as it
\* was, and adds none, whether the call succeeds or fails
C24_RowsOutsideBatchKept ==
  pc = "upserted" =>
    /\ \A r \in storeBefore : r.tweet_id \notin Keys(allTweets) => r \in store
    /\ \A r \in store : r.tweet_id \notin Keys(allTweets) => r \in storeBefore

C24_Witness ==
  /\ pc = "upserted"
  /\ ~uploadErr
  /\ \E r \in storeBefore : r.tweet_id \notin Keys(allTweets) /\ r \in store
  /\ \E i \in 1..Len(allTweets) :
       /\ allTweets[i] \in store \ storeBefore
       /\ \E r \in storeBefore : r.tweet_id = allTweets[i].tweet_id

\* C25: the accumulated output only grows at its end: every step keeps the
\* records already folded, in place, in order and unmodified
C25_OutputAppendOnly ==
  [][/\ Len(allTweets) <= Len(allTweets')
     /\ SubSeq(allTweets', 1, Len(allTweets)) = allTweets]_vars

C25_Witness ==
  /\ Len(topics) > 1
  /\ ti = 2
  /\ pc = "next"
  /\ returned[topics[1]] # <<>>
  /\ returned[topics[2]] # <<>>
  /\ allTweets = returned[topics[1]] \o returned[topics[2]]

\* every run of line breaks becomes one space
RECURSIVE CollapseBreaks(_)
CollapseBreaks(t) ==
  IF t = <<>> THEN <<>>
  ELSE IF Head(t) # "\n" THEN <<Head(t)>> \o CollapseBreaks(Tail(t))
  ELSE IF Len(t) > 1 /\ t[2] = "\n" THEN CollapseBreaks(Tail(t))
  ELSE <<" ">> \o CollapseBreaks(Tail(t))

\* C26: the record's text has no line break, has one space where innerText had
\* a run of line breaks, and has no whitespace at either end
C26_TextNormalised ==
  pc = "texted" =>
    /\ \A i \in 1..Len(text) : text[i] # "\n"
    /\ text = Trim(text)
    /\ text = Trim(CollapseBreaks(innerText))

\* C27: the tweet_id is the id the permalink names, whatever query string or
\* further path segment the permalink carries
C27_IdFromPermalinkOnly ==
  pc = "ided" => tweetId = <<href[3]>>

\* C28: in the count-based collector the stale counter stays between 0 and
\* max_stale_rounds, and it is 0 right after every round in which seen grew
C28_StaleInRange ==
  /\ 0 <= stale
  /\ stale <= MaxStaleRounds(rev)
  /\ (pc \in {"reveal", "settle", "test"} /\ rounds > 0 /\ lastGrowth = rounds) =>
       stale = 0

C28_Witness ==
  /\ pc = "test"
  /\ rounds > 1
  /\ lastGrowth = rounds
  /\ staleBefore = MaxStaleRounds(rev) - 1
  /\ stale = 0

\* C29: the count-based loop ends either with the target reached and the stale
\* counter at 0, or with the stale counter at its limit and the target not
\* reached, never both and never neither
C29_ExitReason ==
  pc = "fold" =>
    (Len(seen) >= target /\ stale = 0) # (stale >= MaxStaleRounds(rev) /\ Len(seen) < target)

C29_Witness ==
  /\ pc = "fold"
  /\ Len(seen) >= target
  /\ stale = 0
  /\ staleBefore > 0
  /\ rounds > 2

\* C30: the count-based collector never runs more than
\* target_count * max_stale_rounds rounds for a target
C30_RoundsWithinProduct == rounds <= target * MaxStaleRounds(rev)

C30_Witness ==
  /\ pc = "fold"
  /\ target > 1
  /\ rounds = target * MaxStaleRounds(rev)

RoundPcs == {"test", "extract", "growth", "reveal", "settle"}

\* C31: within one target no step of the collector removes an id from seen:
\* an id merged in some round is in seen in every later round, whatever the
\* source renders then
C31_SeenIdsOnlyGrow ==
  [][(pc \in RoundPcs /\ pc' \in RoundPcs \cup {"fold"}) => Ids(seen) \subseteq Ids(seen')]_vars

C31_Witness ==
  /\ script = <<>>
  /\ pc = "test"
  /\ lastGrowth = 1
  /\ rounds > 2
  /\ Len(seen) = 1
  /\ Ids(seen) = {firstSeen[1]}

IdSeq(s) == [i \in 1..Len(s) |-> s[i].tweet_id]

\* C32: seen holds its ids in order of first appearance, an overwrite leaving
\* the position alone, and the records returned are those of the first
\* target_count ids that appeared
C32_FirstAppearanceOrder ==
  /\ pc \in RoundPcs \cup {"fold"} => IdSeq(seen) = firstSeen
  /\ pc = "fold" =>
       IdSeq(returned[Cur]) =
         SubSeq(firstSeen, 1, IF Len(firstSeen) < target THEN Len(firstSeen) ELSE target)

C32_Witness ==
  /\ pc = "fold"
  /\ LastWriteWins(rev)
  /\ Len(firstSeen) > target
  /\ firstSeen[1] # 1
  /\ IdSeq(returned[Cur]) = <<firstSeen[1]>>

\* C33: in the revisions that open a page per target at most one page is open,
\* and none is open when the loop turns to a target, whichever way the target
\* before it ended
C33_OnePageAtATime ==
  PagePerTarget(rev) =>
    /\ pagesOpen <= 1
    /\ pc = "goto" => pagesOpen = 0

C33_Witness ==
  /\ PagePerTarget(rev)
  /\ Len(topics) > 1
  /\ ti = 2
  /\ pc = "test"
  /\ pagesOpen = 1
  /\ navThrew[topics[1]] \/ selTimedOut[topics[1]]

\* C34: a run that launched a browser has closed it when it reaches the upload
\* and when main has ended, whatever failed on the way
C34_BrowserClosed ==
  (launched /\ pc \in {"upload", "done", "exit"}) => browserClosed

\* C35: a run that ends with an empty batch has made no upsert call and has
\* left the store as it found it
C35_EmptyBatchNoUpload ==
  (pc = "done" /\ allTweets = <<>>) => (uploaded = <<>> /\ store = storeBefore)

C35_Witness ==
  /\ pc = "done"
  /\ allTweets = <<>>
  /\ Len(topics) > 1
  /\ status[topics[1]] = "Failed"
  /\ status[topics[2]] = "PartialDone"
  /\ uploaded = <<>>

C37_AnalysedStaysProcessed ==
  [][\A id \in 1..MaxId :
       (processed[id] /\ analysis[id] \in Sentiments) => processed'[id]]_vars

\* C38: every call of hf_sentiment_single ends after finitely many requests,
\* also when the service answers 503 to every one of them
C38_SentimentCallEnds ==
  /\ [](depth <= MaxDepth)
  /\ (pc = "hf") ~> (pc = "write")

C38_Witness ==
  /\ service = "busy"
  /\ pc = "write"
  /\ analysisRows # <<>>
  /\ \A i \in 1..Len(analysisRows) : analysisRows[i] = "unknown"

====
